---- MODULE Spec2Model ----
(***************************************************************************)
(* A model of the encoder/button controller scripts of this repository.   *)
(* Every script is a straight-line start-up (open the seesaw peripheral,   *)
(* bind four encoder and four button handles) followed by an endless       *)
(* polling loop over the four channels.  The variable `script` selects     *)
(* the script that is running; the loop body of each script is an          *)
(* operator Loop_<script> translated from that script's `while True:`      *)
(* body.  Values returned by the peripheral (raw encoder counts, button    *)
(* levels, faults) are inputs chosen by the environment at each read.      *)
(***************************************************************************)
EXTENDS Integers, Sequences, FiniteSets, TLC

(***************************************************************************)
(* Program constants.                                                      *)
(***************************************************************************)
NumChannels == 4
ENCODER_DIVISOR == 4
None == -1

(***************************************************************************)
(* Bounds of the exploration.                                              *)
(*   MaxDetent  raw counts read from an encoder are the detent positions   *)
(*              d * ENCODER_DIVISOR for |d| <= MaxDetent and the counts    *)
(*              -1 and 1 next to zero.                                     *)
(*   MaxEvents  number of things the peripheral does other than answer     *)
(*              as before: a start-up attempt (to open an address, to bind *)
(*              a pair of pins) that faults; in the polling loop a raw     *)
(*              count or a level that differs from the one read before, a  *)
(*              fault that disables a handle or ends the script.  Read     *)
(*              faults that change nothing are not counted, but occur only *)
(*              while something of MaxEvents is left; after the last       *)
(*              event every read answers as before.                        *)
(*   MaxStartFaults  in SpecStart, the number of start-up attempts that     *)
(*              fault (five addresses can fail in qtpy_pullups.py).        *)
(*   MaxCounter iterations of the loop of qtpy_debug_buttons.py, whose     *)
(*              `counter` grows without bound.                             *)
(*   MaxLines   lines simple_serial_test.py receives while it listens.     *)
(***************************************************************************)
MaxDetent == 2
MaxEvents == 2
MaxCounter == 6
MaxStartFaults == 5
MaxLines == 2

Abs(n) == IF n < 0 THEN -n ELSE n

RawVals == {d * ENCODER_DIVISOR : d \in (-MaxDetent)..MaxDetent} \cup {-1, 1}

Chans == 0..(NumChannels - 1)

\* Python lists are indexed from 0, TLA+ sequences from 1.
At(s, i) == s[i + 1]
Put(s, i, v) == [s EXCEPT ![i + 1] = v]

(***************************************************************************)
(* Faults.  The scripts classify a fault by the text of the exception:     *)
(* `"No such device" in str(e)`.                                           *)
(***************************************************************************)
NoErr == "none"
NoSuchDevice == "No such device"
OtherError == "other error"
AttributeError == "'NoneType' object has no attribute"
Faults == {NoSuchDevice, OtherError}

\* What a read of `.position` / `.value` gives: a value, or a fault raised.
EncReads == [ok : {TRUE}, v : RawVals, err : {NoErr}]
                \cup [ok : {FALSE}, v : {0}, err : Faults]
BtnReads == [ok : {TRUE}, v : BOOLEAN, err : {NoErr}]
                \cup [ok : {FALSE}, v : {FALSE}, err : Faults]

(***************************************************************************)
(* Lines written with print().  A line is kept as its parts:               *)
(*   E<ch>:<txt><n>            k = "E", txt the sign characters            *)
(*   B<ch>:<txt>               k = "B", txt PRESS or RELEASE; in           *)
(*                             qtpy_debug_buttons.py followed by           *)
(*                             " (pin <n>)", tail = "pin"                  *)
(*   any other text            k = "LOG", txt names the message            *)
(***************************************************************************)
Line(k, ch, txt, n, tail) == [k |-> k, ch |-> ch, txt |-> txt, n |-> n, tail |-> tail]

\* f"{delta}"
FmtPlain(delta) == [sign |-> IF delta < 0 THEN "-" ELSE "", mag |-> Abs(delta)]
\* f"{delta:+d}"
FmtSigned(delta) == [sign |-> IF delta < 0 THEN "-" ELSE "+", mag |-> Abs(delta)]

ELine(i, fmt) == Line("E", i + 1, fmt.sign, fmt.mag, "")
BLine(i, word) == Line("B", i + 1, word, 0, "")
LogLine(i, msg) == Line("LOG", i + 1, msg, 0, "")

\* The integer an E line carries, as a reader of the line parses it.
DeltaOf(line) == IF line.txt = "-" THEN -line.n ELSE line.n

(***************************************************************************)
(* The scripts.                                                            *)
(***************************************************************************)
GridSequencer == "qtpy_grid_sequencer"
EncoderScript == "qtpy_encoder_script"
QuadRotary == "qtpy_quad_rotary_script"
NormalizedSteps == "qtpy_normalized_steps"
FixedPins == "qtpy_fixed_pins"
Working == "qtpy_working"
Simple == "qtpy_simple"
Pullups == "qtpy_pullups"
DebugButtons == "qtpy_debug_buttons"
FixedFromSample == "qtpy_fixed_from_sample"
SimpleRotary == "qtpy_simple_rotary"

SerialTest == "simple_serial_test"

Scripts == {GridSequencer, EncoderScript, QuadRotary, NormalizedSteps, FixedPins,
            Working, Simple, Pullups, DebugButtons, FixedFromSample, SimpleRotary}

VARIABLES
    script,          \* the script that runs
    pc,              \* "probe", "pins", "loop", "idle" (while True: sleep(1)) or "crashed"
    idx,             \* the loop variable i of the for loop in progress
    addr_idx,        \* position in `addresses` of the next address to try
    seesaw_board,    \* the address of the opened seesaw, or None
    encoders,        \* list of encoder handles (the pin bound, or None)
    buttons,         \* list of button handles (the pin bound, or None)
    last_positions,
    last_buttons,
    counter,         \* qtpy_debug_buttons.py: iterations so far
    out,             \* the lines printed by the latest step, in order
    rd,              \* the reads issued by the latest loop step and what they gave
    events_left,     \* what is left of MaxEvents
    prev_raw,        \* per channel: the latest raw count read (0 before the first read)
    sum_delta,       \* per channel: sum of the deltas of the E lines printed
    watch,           \* the channel whose reads are followed from the start of the loop, or None
    first_raw,       \* channel watch: <<first raw count read>>, or <<>>
    scen_b,          \* channel watch: button levels read so far, while they follow ButtonScenario
    scen_e,          \* channel watch: raw counts read so far, while they follow EncoderScenario
    tried,           \* the addresses Seesaw(i2c, addr) was called with, in order
    pin_tries,       \* the (encoder pin, button pin) pairs the latest set-up step tried
    btn_log,         \* channel watch: the word of the latest B line printed ("" before the first)
    ser              \* simple_serial_test.py: the ports opened and closed, the listening clock

vars == <<script, pc, idx, addr_idx, seesaw_board, encoders, buttons, last_positions,
          last_buttons, counter, out, rd, events_left, prev_raw, sum_delta,
          watch, first_raw, scen_b, scen_e, tried, pin_tries, btn_log, ser>>


(***************************************************************************)
(* The polling loop.  A frame f holds the lists the loop body works on,    *)
(* the lines it has printed (out) and the reads it has issued (reads).     *)
(* A try body gives [f, raised]: the frame at the point where it ended     *)
(* and the fault that ended it (NoErr when it ran to its end).             *)
(***************************************************************************)
NoReads == [enc |-> FALSE, btn |-> FALSE]

Ok(f) == [f |-> f, raised |-> NoErr]
Raise(f, err) == [f |-> f, raised |-> err]

Emit(f, line) == [f EXCEPT !.out = Append(@, line)]

\* encoders[i].position
ReadPosition(f, i, e) ==
    IF At(f.encoders, i) = None THEN Raise(f, AttributeError)
    ELSE LET g == [f EXCEPT !.reads.enc = TRUE] IN
         IF e.ok THEN Ok(g) ELSE Raise(g, e.err)

\* buttons[i].value
ReadValue(f, i, b) ==
    IF At(f.buttons, i) = None THEN Raise(f, AttributeError)
    ELSE LET g == [f EXCEPT !.reads.btn = TRUE] IN
         IF b.ok THEN Ok(g) ELSE Raise(g, b.err)

\* raw policy: print the difference as it is
RawEncoderStep(f, i, current_pos) ==
    IF current_pos # At(f.last_positions, i)
    THEN LET delta == current_pos - At(f.last_positions, i) IN
         [Emit(f, ELine(i, FmtPlain(delta))) EXCEPT
             !.last_positions = Put(@, i, current_pos)]
    ELSE f

\* (mutant) a clamp of the upward jumps only
Clamp_OneSided(delta) == IF delta > 1 THEN 1 ELSE delta

\* (mutant) no clamp
Clamp_Identity(delta) == delta

\* the clamp of qtpy_grid_sequencer.py
Clamp(delta) == IF delta > 1 THEN 1 ELSE IF delta < -1 THEN -1 ELSE delta

\* (mutant) the divisor step that moves its baseline by the clamped delta
DivisorEncoderStep_ClampedBaseline(f, i, raw_pos) ==
    LET step_pos == raw_pos \div ENCODER_DIVISOR IN
    IF step_pos # At(f.last_positions, i)
    THEN LET delta == Clamp(step_pos - At(f.last_positions, i)) IN
         [Emit(f, ELine(i, FmtSigned(delta))) EXCEPT
             !.last_positions = Put(@, i, At(f.last_positions, i) + delta)]
    ELSE f

\* (mutant) the divisor step that keeps the raw count as its baseline
DivisorEncoderStep_RawBaseline(f, i, raw_pos) ==
    LET step_pos == raw_pos \div ENCODER_DIVISOR IN
    IF step_pos # At(f.last_positions, i)
    THEN LET delta == Clamp(step_pos - At(f.last_positions, i)) IN
         [Emit(f, ELine(i, FmtSigned(delta))) EXCEPT
             !.last_positions = Put(@, i, raw_pos)]
    ELSE f

\* divisor-scaled policy: floor-divide the raw count, clamp the difference
DivisorEncoderStep(f, i, raw_pos) ==
    LET step_pos == raw_pos \div ENCODER_DIVISOR IN
    IF step_pos # At(f.last_positions, i)
    THEN LET delta == Clamp(step_pos - At(f.last_positions, i)) IN
         [Emit(f, ELine(i, FmtSigned(delta))) EXCEPT
             !.last_positions = Put(@, i, step_pos)]
    ELSE f

\* (mutant) the sign step that prints the raw difference
SignEncoderStep_Raw(f, i, current_pos) ==
    IF current_pos # At(f.last_positions, i)
    THEN [Emit(f, ELine(i, FmtSigned(current_pos - At(f.last_positions, i)))) EXCEPT
             !.last_positions = Put(@, i, current_pos)]
    ELSE f

\* sign-normalized policy: the literal lines E<i>:+1 and E<i>:-1
SignEncoderStep(f, i, current_pos) ==
    IF current_pos # At(f.last_positions, i)
    THEN LET raw_delta == current_pos - At(f.last_positions, i) IN
         [Emit(f, IF raw_delta > 0 THEN Line("E", i + 1, "+", 1, "")
                                   ELSE Line("E", i + 1, "-", 1, "")) EXCEPT
             !.last_positions = Put(@, i, current_pos)]
    ELSE f

\* (mutant) the button step that prints the level at every read
ButtonStep_PrintsLevel(f, i, current_btn) ==
    [Emit(f, IF ~current_btn THEN BLine(i, "PRESS") ELSE BLine(i, "RELEASE")) EXCEPT
        !.last_buttons = Put(@, i, current_btn)]

\* (mutant) the button step that forgets the level it saw
ButtonStep_ForgetsLevel(f, i, current_btn) ==
    IF current_btn # At(f.last_buttons, i)
    THEN Emit(f, IF ~current_btn THEN BLine(i, "PRESS") ELSE BLine(i, "RELEASE"))
    ELSE f

\* the button step shared by the four-channel scripts
ButtonStep(f, i, current_btn) ==
    IF current_btn # At(f.last_buttons, i)
    THEN [Emit(f, IF ~current_btn THEN BLine(i, "PRESS") ELSE BLine(i, "RELEASE")) EXCEPT
             !.last_buttons = Put(@, i, current_btn)]
    ELSE f

\* (mutant) a disable that takes every channel down
DisableBoth_AllChannels(f, i) ==
    [f EXCEPT !.encoders = [c \in 1..Len(@) |-> None], !.buttons = [c \in 1..Len(@) |-> None]]

\* encoders[i] = None; buttons[i] = None
DisableBoth(f, i) ==
    [f EXCEPT !.encoders = Put(@, i, None), !.buttons = Put(@, i, None)]

\* an exception that no handler catches ends the script
Crash(f) == [f EXCEPT !.crashed = TRUE]

(* Try bodies. *)

\* encoder read and step, then button read and step, no guards
TryUnguarded(policy, f, i, e, b) ==
    LET r1 == ReadPosition(f, i, e) IN
    IF r1.raised # NoErr THEN r1
    ELSE LET f2 == CASE policy = "raw" -> RawEncoderStep(r1.f, i, e.v)
                     [] policy = "divisor" -> DivisorEncoderStep(r1.f, i, e.v)
                     [] policy = "sign" -> SignEncoderStep(r1.f, i, e.v)
             r2 == ReadValue(f2, i, b)
         IN IF r2.raised # NoErr THEN r2 ELSE Ok(ButtonStep(r2.f, i, b.v))

\* encoder read and raw step, then the button step under `if buttons[i] is not None`
TryGuardedButton(f, i, e, b) ==
    LET r1 == ReadPosition(f, i, e) IN
    IF r1.raised # NoErr THEN r1
    ELSE LET f2 == RawEncoderStep(r1.f, i, e.v) IN
         IF At(f2.buttons, i) # None
         THEN LET r2 == ReadValue(f2, i, b) IN
              IF r2.raised # NoErr THEN r2 ELSE Ok(ButtonStep(r2.f, i, b.v))
         ELSE Ok(f2)

\* both halves under their own `is not None` guard
TryBothGuarded(f, i, e, b) ==
    LET r1 == IF At(f.encoders, i) # None THEN ReadPosition(f, i, e) ELSE Ok(f) IN
    IF r1.raised # NoErr THEN r1
    ELSE LET f2 == IF At(f.encoders, i) # None THEN RawEncoderStep(r1.f, i, e.v) ELSE r1.f IN
         IF At(f2.buttons, i) # None
         THEN LET r2 == ReadValue(f2, i, b) IN
              IF r2.raised # NoErr THEN r2 ELSE Ok(ButtonStep(r2.f, i, b.v))
         ELSE Ok(f2)

(* Loop bodies, one per script: the body of `for i in range(4):`. *)

Loop_encoder_script(f, i, e, b) ==
    LET r == TryUnguarded("raw", f, i, e, b) IN
    IF r.raised # NoErr THEN Crash(r.f) ELSE r.f

Loop_quad_rotary_script(f, i, e, b) ==
    LET r == TryUnguarded("raw", f, i, e, b) IN
    IF r.raised # NoErr THEN Crash(r.f) ELSE r.f

Loop_grid_sequencer(f, i, e, b) ==
    LET r == TryUnguarded("divisor", f, i, e, b) IN
    IF r.raised # NoErr THEN Emit(r.f, LogLine(i, "Error encoder")) ELSE r.f

Loop_normalized_steps(f, i, e, b) ==
    LET r == TryUnguarded("sign", f, i, e, b) IN
    IF r.raised # NoErr THEN Emit(r.f, LogLine(i, "Error encoder")) ELSE r.f

Loop_fixed_pins(f, i, e, b) ==
    IF At(f.encoders, i) = None THEN f
    ELSE LET r == TryGuardedButton(f, i, e, b) IN
         IF r.raised # NoErr
         THEN DisableBoth(Emit(r.f, LogLine(i, "Error reading encoder")), i)
         ELSE r.f

\* (mutant) a loop that sets the channel up again after a transient fault
Loop_working_Rebinds(f, i, e, b) ==
    IF At(f.encoders, i) = None THEN f
    ELSE LET r == TryGuardedButton(f, i, e, b) IN
         IF r.raised # NoErr
         THEN LET g == Emit(r.f, LogLine(i, "Error reading encoder")) IN
              IF r.raised = NoSuchDevice
              THEN Emit(DisableBoth(g, i), LogLine(i, "Disabled encoder"))
              ELSE [g EXCEPT !.encoders = Put(@, i, At(<<12, 14, 17, 9>>, i)),
                             !.buttons = Put(@, i, At(<<24, 25, 26, 27>>, i))]
         ELSE r.f

Loop_working(f, i, e, b) ==
    IF At(f.encoders, i) = None THEN f
    ELSE LET r == TryGuardedButton(f, i, e, b) IN
         IF r.raised # NoErr
         THEN LET g == Emit(r.f, LogLine(i, "Error reading encoder")) IN
              IF r.raised = NoSuchDevice
              THEN Emit(DisableBoth(g, i), LogLine(i, "Disabled encoder"))
              ELSE g
         ELSE r.f

Loop_simple(f, i, e, b) ==
    LET r == TryBothGuarded(f, i, e, b) IN
    IF r.raised # NoErr
    THEN IF r.raised = NoSuchDevice
         THEN DisableBoth(Emit(r.f, LogLine(i, "Disabled encoder (no device)")), i)
         ELSE Emit(r.f, LogLine(i, "Error encoder"))
    ELSE r.f

\* qtpy_fixed_from_sample.py: the raw policy inside one try, the handler prints
Loop_fixed_from_sample(f, i, e, b) ==
    LET r == TryUnguarded("raw", f, i, e, b) IN
    IF r.raised # NoErr THEN Emit(r.f, LogLine(i, "Error reading encoder")) ELSE r.f

\* qtpy_simple_rotary.py: skip an absent encoder; the handler prints
Loop_simple_rotary(f, i, e, b) ==
    IF At(f.encoders, i) = None THEN f
    ELSE LET r == TryGuardedButton(f, i, e, b) IN
         IF r.raised # NoErr THEN Emit(r.f, LogLine(i, "Error reading encoder")) ELSE r.f

Loop_pullups(f, i, e, b) ==
    IF At(f.encoders, i) = None THEN f
    ELSE LET r == TryGuardedButton(f, i, e, b) IN
         IF r.raised # NoErr
         THEN IF r.raised = NoSuchDevice THEN DisableBoth(r.f, i) ELSE r.f
         ELSE r.f


\* qtpy_debug_buttons.py prints the button state every DebugPeriod iterations
DebugPeriod == 1000

\* the button step of qtpy_debug_buttons.py: the lines end in " (pin <button3_pin>)"
DebugButtonStep(f, i, current_btn) ==
    IF current_btn # At(f.last_buttons, i)
    THEN [Emit(f, Line("B", i + 1, IF ~current_btn THEN "PRESS" ELSE "RELEASE",
                       At(f.buttons, i), "pin")) EXCEPT
             !.last_buttons = Put(@, i, current_btn)]
    ELSE f

\* the body of `while True:` of qtpy_debug_buttons.py; i is 2 (encoder3, button3)
Loop_debug_buttons(f, i, e, b) ==
    LET f0 == [f EXCEPT !.counter = @ + 1]
        r1 == ReadPosition(f0, i, e)
    IN IF r1.raised # NoErr THEN Crash(r1.f)
       ELSE LET f2 == RawEncoderStep(r1.f, i, e.v) IN
            IF At(f2.buttons, i) # None
            THEN LET r2 == ReadValue(f2, i, b) IN
                 IF r2.raised # NoErr
                 THEN [Emit(r2.f, LogLine(i, "Button read error")) EXCEPT
                          !.buttons = Put(@, i, None)]
                 ELSE DebugButtonStep(
                          IF f2.counter % DebugPeriod = 0
                          THEN Emit(r2.f, Line("LOG", i + 1, "Button 3 state",
                                               At(f2.buttons, i), "pin"))
                          ELSE r2.f,
                          i, b.v)
            ELSE f2

LoopBody(s, f, i, e, b) ==
    CASE s = GridSequencer -> Loop_grid_sequencer(f, i, e, b)
      [] s = EncoderScript -> Loop_encoder_script(f, i, e, b)
      [] s = QuadRotary -> Loop_quad_rotary_script(f, i, e, b)
      [] s = NormalizedSteps -> Loop_normalized_steps(f, i, e, b)
      [] s = FixedPins -> Loop_fixed_pins(f, i, e, b)
      [] s = Working -> Loop_working(f, i, e, b)
      [] s = Simple -> Loop_simple(f, i, e, b)
      [] s = Pullups -> Loop_pullups(f, i, e, b)
      [] s = DebugButtons -> Loop_debug_buttons(f, i, e, b)
      [] s = FixedFromSample -> Loop_fixed_from_sample(f, i, e, b)
      [] s = SimpleRotary -> Loop_simple_rotary(f, i, e, b)

\* (mutant) a loop that visits the channels in descending order
NextIdx_Descending(s, i) == IF s = DebugButtons THEN i ELSE (i + NumChannels - 1) % NumChannels

\* the channel polled after channel i: `for i in range(4)` inside `while True`
NextIdx(s, i) == IF s = DebugButtons THEN i ELSE (i + 1) % NumChannels

(***************************************************************************)
(* Start-up.                                                               *)
(***************************************************************************)
\* the addresses a script tries, in order (0x36 = 54, 0x49 = 73, 0x3A = 58,
\* 0x3B = 59, 0x60 = 96); qtpy_encoder_script.py uses no seesaw
Addresses(s) ==
    CASE s = FixedPins -> <<54, 73, 58, 59>>
      [] s = Pullups -> <<54, 73, 58, 59, 96>>
      [] s = SimpleRotary -> <<54, 73>>
      [] s = QuadRotary -> <<54>>
      [] s = EncoderScript -> <<>>
      [] OTHER -> <<73>>

\* (mutant) a probe that gives up at the first fault
OnProbeFault_GivesUp(s) == "idle"

\* (mutant) a probe whose fault ends the script
OnProbeFault_Crashes(s) == "crashed"

\* what a fault of Seesaw(i2c, addr) leads to
OnProbeFault(s) ==
    CASE s \in {FixedPins, Pullups, SimpleRotary} -> "next"
      [] s = Simple -> "idle"
      [] OTHER -> "crashed"

encoder_pins(s) ==
    CASE s \in {GridSequencer, NormalizedSteps, EncoderScript, FixedFromSample} -> <<0, 1, 2, 3>>
      [] OTHER -> <<12, 14, 17, 9>>

button_pins(s) ==
    CASE s \in {GridSequencer, NormalizedSteps, FixedFromSample} -> <<12, 14, 17, 9>>
      [] s = EncoderScript -> <<0, 1, 2, 3>>
      [] OTHER -> <<24, 25, 26, 27>>

alt_encoder_pins == << <<5, 6, 7, 8>>, <<1, 2, 3, 4>>, <<18, 19, 20, 21>> >>
alt_button_pins == << <<0, 1, 2, 3>>, <<10, 11, 12, 13>>, <<14, 15, 16, 17>> >>

\* qtpy_debug_buttons.py
alt_button_pins_debug == <<23, 24, 25, 27, 28, 29, 30, 31>>

InitLastButtons(s) ==
    IF s \in {GridSequencer, EncoderScript, NormalizedSteps, FixedFromSample}
    THEN <<TRUE, TRUE, TRUE, TRUE>>
    ELSE <<FALSE, FALSE, FALSE, FALSE>>

(***************************************************************************)
(* One attempt to bind an (encoder pin, button pin) pair inside a try:     *)
(*     encoder = IncrementalEncoder(seesaw_board, epin)                     *)
(*     button = DigitalIO(seesaw_board, bpin)                               *)
(*     button.direction = ...; button.pull = ...                            *)
(* o says where it faulted: "enc" in the first line, "btn" in the second,  *)
(* "cfg" in the third, "ok" nowhere.  h = [encoder, button, ok] are the    *)
(* two local variables before and after; h.tries lists the pairs tried.    *)
(***************************************************************************)
Outcomes == {"ok", "enc", "btn", "cfg"}

\* (mutant) a try block that makes the button before the encoder
TryPair_ButtonFirst(h, o, epin, bpin) ==
    LET t == Append(h.tries, <<epin, bpin>>) IN
    CASE o = "ok" -> [encoder |-> epin, button |-> bpin, ok |-> TRUE, tries |-> t]
      [] o = "btn" -> [h EXCEPT !.ok = FALSE, !.tries = t]
      [] o = "cfg" -> [h EXCEPT !.ok = FALSE, !.tries = t]
      [] o = "enc" -> [encoder |-> h.encoder, button |-> bpin, ok |-> FALSE, tries |-> t]

TryPair(h, o, epin, bpin) ==
    LET t == Append(h.tries, <<epin, bpin>>) IN
    CASE o = "ok" -> [encoder |-> epin, button |-> bpin, ok |-> TRUE, tries |-> t]
      [] o = "enc" -> [h EXCEPT !.ok = FALSE, !.tries = t]
      [] o = "btn" -> [encoder |-> epin, button |-> h.button, ok |-> FALSE, tries |-> t]
      [] o = "cfg" -> [encoder |-> epin, button |-> bpin, ok |-> FALSE, tries |-> t]

NoHandles == [encoder |-> None, button |-> None, ok |-> FALSE, tries |-> <<>>]

\* qtpy_working.py, qtpy_simple.py, qtpy_pullups.py: one try per channel
SetupChannel(s, i, o) == TryPair(NoHandles, o, At(encoder_pins(s), i), At(button_pins(s), i))

\* qtpy_fixed_pins.py: the alternatives alt_idx = a, a+1, ... until one succeeds
RECURSIVE TryAlternatives(_, _, _, _)
TryAlternatives(h, i, os, a) ==
    IF a >= Len(alt_encoder_pins) THEN h
    ELSE LET h2 == TryPair(h, os[a + 2], At(At(alt_encoder_pins, a), i),
                           At(At(alt_button_pins, a), i))
         IN IF h2.ok THEN h2 ELSE TryAlternatives(h2, i, os, a + 1)

\* (mutant) a set-up that goes to the alternatives at once
SetupChannel_fixed_pins_SkipsMain(i, os) == TryAlternatives(NoHandles, i, os, 0)

\* qtpy_fixed_pins.py: main pins first, then the alternatives; os[1] is the
\* outcome of the main pair, os[a + 2] of alternative a
SetupChannel_fixed_pins(i, os) ==
    LET h == TryPair(NoHandles, os[1], At(encoder_pins(FixedPins), i),
                     At(button_pins(FixedPins), i))
    IN IF h.ok THEN h ELSE TryAlternatives(h, i, os, 0)

\* qtpy_debug_buttons.py: button 3 on its pin, else the first alternative pin
\* that can be set up (alt = its position in the list, 0 when there is none)
SetupButton_debug(o, alt) ==
    CASE o \in {"ok", "cfg", "val"} -> At(button_pins(DebugButtons), 2)
      [] alt = 0 -> None
      [] OTHER -> alt_button_pins_debug[alt]

\* qtpy_debug_buttons.py: the alternative pins that raise before one works
FailedAlts(alt) == IF alt = 0 THEN Len(alt_button_pins_debug) ELSE alt - 1

\* qtpy_debug_buttons.py: the lines printed from the encoder set-up to the
\* loop.  o is where the try of button 3 faulted: "btn" at DigitalIO, "cfg"
\* at direction or pull, "val" at the read of the initial state, "ok" nowhere
SetupLines_debug(o, alt) ==
    LET L(txt, n) == Line("LOG", 3, txt, n, "")
        pin == At(button_pins(DebugButtons), 2)
    IN <<L("Encoder 3 setup on pin", At(encoder_pins(DebugButtons), 2)),
         L("Trying button 3 on pin", pin)>>
       \o (CASE o = "ok" -> <<L("Button 3 setup successful on pin", pin),
                              L("Button 3 initial state", 0)>>
              [] o = "val" -> <<L("Button 3 setup successful on pin", pin),
                               L("Button 3 setup failed", 0)>>
              [] o = "cfg" -> <<L("Button 3 setup failed", 0)>>
              [] OTHER ->
                   <<L("Button 3 setup failed", 0),
                     L("Trying alternative button pins for encoder 3...", 0)>>
                   \o [k \in 1..FailedAlts(alt) |-> L("Pin failed", alt_button_pins_debug[k])]
                   \o (IF alt = 0 THEN <<>>
                       ELSE <<L("Alternative button found on pin",
                                alt_button_pins_debug[alt])>>))
       \o <<L("Ready! Try encoder 3 rotation and button press...", 0),
            L("Monitoring encoder 3 and its button...", 0)>>


AllPins(s) == [encoders |-> encoder_pins(s), buttons |-> button_pins(s)]

\* working_count = sum(1 for e in encoders if e is not None)
WorkingCount(encs) == Cardinality({k \in 1..Len(encs) : encs[k] # None})

(***************************************************************************)
(* One step of the pin set-up of script s at channel i, with the lists     *)
(* built so far.  os are the outcomes of the attempts the step makes, alt  *)
(* the alternative button pin that works in qtpy_debug_buttons.py.         *)
(* Gives the lists after the step, where the script goes next, and what    *)
(* it printed.                                                             *)
(***************************************************************************)
PinStep(s, encs, btns, i, os, alt) ==
    CASE s \in {GridSequencer, NormalizedSteps, EncoderScript, FixedFromSample} ->
           \* straight-line construction of all eight handles, no try (the
           \* test loop of qtpy_fixed_from_sample.py reads inside a try and
           \* only prints).  A fault ends the script with what was bound
           \* before it: `encoders` after the first comprehension, `switches`
           \* after the second; qtpy_encoder_script.py builds its lists only
           \* after the last constructor
           IF os[1] = "ok"
           THEN [encoders |-> encoder_pins(s), buttons |-> button_pins(s),
                 last_buttons |-> InitLastButtons(s), pc |-> "loop", idx |-> 0,
                 out |-> <<Line("LOG", 0, "ready", 0, "")>>]
           ELSE [encoders |-> IF s # EncoderScript /\ os[1] \in {"btn", "cfg"}
                              THEN encoder_pins(s) ELSE encs,
                 buttons |-> IF s # EncoderScript /\ os[1] = "cfg"
                             THEN button_pins(s) ELSE btns,
                 last_buttons |-> InitLastButtons(s), pc |-> "crashed", idx |-> i,
                 out |-> <<>>]
      [] s = QuadRotary ->
           \* for i in range(4): no try; encoders.append(encoder) comes before
           \* the button is made, buttons.append(button) after it is configured
           IF os[1] = "ok"
           THEN [encoders |-> Append(encs, At(encoder_pins(s), i)),
                 buttons |-> Append(btns, At(button_pins(s), i)),
                 last_buttons |-> InitLastButtons(s),
                 pc |-> IF i = NumChannels - 1 THEN "loop" ELSE "pins",
                 idx |-> IF i = NumChannels - 1 THEN 0 ELSE i + 1,
                 out |-> IF i = NumChannels - 1
                         THEN <<Line("LOG", 0, "ready", 0, "")>> ELSE <<>>]
           ELSE [encoders |-> IF os[1] = "enc" THEN encs
                              ELSE Append(encs, At(encoder_pins(s), i)),
                 buttons |-> btns,
                 last_buttons |-> InitLastButtons(s), pc |-> "crashed", idx |-> i,
                 out |-> <<>>]
      [] s \in {Working, Simple, Pullups} ->
           LET h == SetupChannel(s, i, os[1]) IN
           [encoders |-> Append(encs, h.encoder), buttons |-> Append(btns, h.button),
            last_buttons |-> InitLastButtons(s),
            pc |-> IF i = NumChannels - 1 THEN "loop" ELSE "pins",
            idx |-> IF i = NumChannels - 1 THEN 0 ELSE i + 1,
            out |-> <<LogLine(i, IF h.ok THEN "setup ok" ELSE "setup failed")>>
                    \o (IF i = NumChannels - 1
                        THEN <<Line("LOG", 0, "working", WorkingCount(Append(encs, h.encoder)), ""),
                               Line("LOG", 0, "ready", 0, "")>>
                        ELSE <<>>)]
      [] s = FixedPins ->
           LET h == SetupChannel_fixed_pins(i, os)
               encs2 == Append(encs, h.encoder)
               working_count == WorkingCount(encs2)
               last == (i = NumChannels - 1)
           IN [encoders |-> encs2, buttons |-> Append(btns, h.button),
               last_buttons |-> InitLastButtons(s),
               pc |-> IF ~last THEN "pins" ELSE IF working_count = 0 THEN "idle" ELSE "loop",
               idx |-> IF last THEN 0 ELSE i + 1,
               out |-> <<LogLine(i, IF h.ok THEN "setup ok" ELSE "setup failed")>>
                       \o (IF ~last THEN <<>>
                           ELSE <<Line("LOG", 0, "working", working_count, "")>>
                                \o (IF working_count = 0
                                    THEN <<Line("LOG", 0, "No encoders working!", 0, "")>>
                                    ELSE <<Line("LOG", 0, "ready", 0, "")>>))]
      [] s = SimpleRotary ->
           \* encoders.append(encoder) comes before the button is made: a
           \* fault after it appends None to both lists as well
           LET o == os[1]
               epin == At(encoder_pins(s), i)
               bpin == At(button_pins(s), i)
           IN [encoders |-> CASE o = "ok" -> Append(encs, epin)
                              [] o = "enc" -> Append(encs, None)
                              [] OTHER -> encs \o <<epin, None>>,
               buttons |-> IF o = "ok" THEN Append(btns, bpin) ELSE Append(btns, None),
               last_buttons |-> InitLastButtons(s),
               pc |-> IF i = NumChannels - 1 THEN "loop" ELSE "pins",
               idx |-> IF i = NumChannels - 1 THEN 0 ELSE i + 1,
               out |-> <<LogLine(i, IF o = "ok" THEN "setup ok" ELSE "setup failed")>>
                       \o (IF i = NumChannels - 1
                           THEN <<Line("LOG", 0, "ready", 0, "")>> ELSE <<>>)]
      [] s = DebugButtons ->
           \* encoder3 outside any try; button3 inside one, then the alternatives
           IF os[1] = "ok"
           THEN LET button3 == SetupButton_debug(os[2], alt) IN
                [encoders |-> <<None, None, At(encoder_pins(s), 2), None>>,
                 buttons |-> <<None, None, button3, None>>,
                 \* last_button = True if button3 else None; the None is never
                 \* read (every use is under `if button3 is not None`)
                 last_buttons |-> <<FALSE, FALSE, button3 # None, FALSE>>,
                 pc |-> "loop", idx |-> 2,
                 out |-> SetupLines_debug(os[2], alt)]
           ELSE [encoders |-> encs, buttons |-> btns,
                 last_buttons |-> InitLastButtons(s), pc |-> "crashed", idx |-> i,
                 out |-> <<>>]

(***************************************************************************)
(* Bookkeeping of what was read and printed (not program state).           *)
(***************************************************************************)
NotReadEnc == [ok |-> FALSE, v |-> 0, err |-> "not read"]
NotReadBtn == [ok |-> FALSE, v |-> FALSE, err |-> "not read"]
NoRd == [ch |-> None, enc |-> NotReadEnc, btn |-> NotReadBtn]

ButtonScenario == <<TRUE, TRUE, FALSE, FALSE, TRUE>>
EncoderScenario == <<0, 0, 4, 4, 8>>

NoBtnLog == [last_line |-> ""]

\* btn_log after a pass of the watched channel that printed the B lines `lines`
LogButton(log, lines) ==
    [last_line |-> IF lines = <<>> THEN log.last_line ELSE lines[Len(lines)].txt]

ScenOff == [n |-> -1, ev |-> <<>>]
ScenStart == [n |-> 0, ev |-> <<>>]

RECURSIVE SumDeltas(_, _)
SumDeltas(lines, ch) ==
    IF lines = <<>> THEN 0
    ELSE (IF Head(lines).k = "E" /\ Head(lines).ch = ch THEN DeltaOf(Head(lines)) ELSE 0)
         + SumDeltas(Tail(lines), ch)

LinesOf(lines, k, ch) == SelectSeq(lines, LAMBDA l : l.k = k /\ l.ch = ch)

RECURSIVE Stamp(_, _)
Stamp(lines, n) ==
    IF lines = <<>> THEN <<>> ELSE <<[at |-> n, line |-> Head(lines)]>> \o Stamp(Tail(lines), n)

\* a scenario follower after a successful read of value v on the watched channel that
\* printed `lines`
Follow(scen, scenario, v, lines) ==
    IF scen.n >= 0 /\ scen.n < Len(scenario) /\ v = scenario[scen.n + 1]
    THEN [n |-> scen.n + 1, ev |-> scen.ev \o Stamp(lines, scen.n + 1)]
    ELSE ScenOff

Frame == [last_positions |-> last_positions, last_buttons |-> last_buttons,
          encoders |-> encoders, buttons |-> buttons, counter |-> counter,
          out |-> <<>>, reads |-> NoReads, crashed |-> FALSE]

(***************************************************************************)
(* simple_serial_test.py: the serial sniffer.  A port is named by the      *)
(* position of its device in `devices`; the clock counts whole seconds     *)
(* since start_time.                                                       *)
(***************************************************************************)
devices == <<"/dev/tty.usbmodem101", "/dev/tty.usbmodemm59111127381">>

\* while time.time() - start_time < 10
ListenSeconds == 10

\* serial.Serial(device, 115200, timeout=2): readline() blocks for at most 2 s
SerialTimeout == 2

NoPorts == [opened |-> <<>>, closed |-> <<>>, elapsed |-> 0, received |-> 0]

\* what the for loop does after the body for devices[i] ended without break
AfterDevice(i) == IF i + 1 < Len(devices) THEN "open" ELSE "done"

(***************************************************************************)
(* Initial state: the script starts.                                       *)
(***************************************************************************)
InitFor(S, W, scenb0, scene0, events0) ==
    /\ script \in S
    /\ watch \in W
    /\ pc = IF script = SerialTest THEN "open"
            ELSE IF Addresses(script) = <<>> THEN "pins" ELSE "probe"
    /\ idx = 0
    /\ addr_idx = 1
    /\ seesaw_board = None
    /\ encoders = <<>>
    /\ buttons = <<>>
    /\ last_positions = <<0, 0, 0, 0>>
    /\ last_buttons = InitLastButtons(script)
    /\ counter = 0
    /\ out = <<>>
    /\ rd = NoRd
    /\ events_left = events0
    /\ prev_raw = <<0, 0, 0, 0>>
    /\ first_raw = <<>>
    /\ sum_delta = <<0, 0, 0, 0>>
    /\ scen_b = scenb0
    /\ scen_e = scene0
    /\ tried = <<>>
    /\ pin_tries = <<>>
    /\ btn_log = NoBtnLog
    /\ ser = NoPorts

Init == InitFor(Scripts, {0}, ScenOff, ScenOff, MaxEvents)

(***************************************************************************)
(* Actions.                                                                *)
(***************************************************************************)
\* one pass of `for addr in addresses:` (or the single Seesaw(i2c, addr) call)
Probe ==
    /\ pc = "probe"
    /\ \E opened \in BOOLEAN :
         LET addr == Addresses(script)[addr_idx]
             last == (addr_idx = Len(Addresses(script)))
         IN /\ ~opened => events_left > 0
            /\ events_left' = events_left - (IF opened THEN 0 ELSE 1)
            /\ seesaw_board' = IF opened THEN addr ELSE seesaw_board
            /\ tried' = Append(tried, addr)
            /\ pc' = IF opened THEN "pins"
                     ELSE IF OnProbeFault(script) = "next"
                          THEN (IF last THEN "idle" ELSE "probe")
                          ELSE OnProbeFault(script)
            /\ addr_idx' = IF ~opened /\ OnProbeFault(script) = "next" /\ ~last
                           THEN addr_idx + 1 ELSE addr_idx
            /\ out' = IF opened
                      THEN (IF script = QuadRotary THEN <<>>   \* no print after Seesaw()
                            ELSE <<Line("LOG", 0, "connected", addr, "")>>)
                      ELSE IF OnProbeFault(script) = "crashed" THEN <<>>
                      ELSE <<Line("LOG", 0, "address failed", addr, "")>>
                           \o (IF pc' = "idle" /\ script # Simple
                               THEN <<Line("LOG", 0, "No seesaw device found!", 0, "")>>
                               ELSE <<>>)
    /\ UNCHANGED <<script, idx, encoders, buttons, last_positions, last_buttons, counter,
                   rd, prev_raw, sum_delta, watch, first_raw, scen_b, scen_e, pin_tries,
                   btn_log, ser>>

\* the outcomes that matter to a script: one attempt per channel, except
\* qtpy_fixed_pins.py (main pair and alternatives) and qtpy_debug_buttons.py
\* (os[1] the encoder, os[2] the try of button 3, which can also fault at
\* the read of the initial state, "val"; after a fault of the encoder the
\* script has ended)
OutcomeSeqs(s) ==
    CASE s = FixedPins -> [1..(1 + Len(alt_encoder_pins)) -> Outcomes]
      [] s = DebugButtons -> {os \in [1..2 -> Outcomes \cup {"val"}] :
                                  \/ os[1] = "ok" /\ os[2] # "enc"
                                  \/ os[1] = "enc" /\ os[2] = "ok"}
      [] OTHER -> [1..1 -> Outcomes]

\* the number of attempts of one set-up step that fault; in
\* qtpy_debug_buttons.py the alternative pins tried before the one that
\* works (all of them when alt = 0) fault as well
FaultedAttempts(s, os, alt) ==
    CASE s = FixedPins ->
           IF \E k \in DOMAIN os : os[k] = "ok"
           THEN (CHOOSE k \in DOMAIN os : os[k] = "ok" /\ \A m \in 1..(k - 1) : os[m] # "ok") - 1
           ELSE Len(os)
      [] s = DebugButtons ->
           CASE os[1] # "ok" -> 1
             [] os[2] = "ok" -> 0
             [] os[2] = "btn" -> 1 + FailedAlts(alt)
             [] OTHER -> 1
      [] OTHER -> IF os[1] = "ok" THEN 0 ELSE 1

\* the pairs a set-up step tries inside its try blocks
PinTries(s, i, os) ==
    CASE s = FixedPins -> SetupChannel_fixed_pins(i, os).tries
      [] s \in {Working, Simple, Pullups} -> SetupChannel(s, i, os[1]).tries
      [] s = SimpleRotary -> <<<<At(encoder_pins(s), i), At(button_pins(s), i)>>>>
      [] OTHER -> <<>>

\* the alternative pin that works, where alternatives are tried
AltChoices(s, os) ==
    IF s = DebugButtons /\ os[1] = "ok" /\ os[2] = "btn"
    THEN 0..Len(alt_button_pins_debug) ELSE {0}

\* one pass of the pin set-up loop (or the straight-line set-up)
PinSetup ==
    /\ pc = "pins"
    /\ \E os \in OutcomeSeqs(script) : \E alt \in AltChoices(script, os) :
         LET r == PinStep(script, encoders, buttons, idx, os, alt)
             cost == FaultedAttempts(script, os, alt)
         IN /\ cost <= events_left
            /\ events_left' = events_left - cost
            /\ encoders' = r.encoders
            /\ buttons' = r.buttons
            /\ last_buttons' = r.last_buttons
            /\ pc' = r.pc
            /\ idx' = r.idx
            /\ out' = r.out
            /\ pin_tries' = PinTries(script, idx, os)
    /\ UNCHANGED <<script, addr_idx, seesaw_board, last_positions, counter, rd,
                   prev_raw, sum_delta, watch, first_raw, scen_b, scen_e, tried, btn_log, ser>>

\* a read of the pass raised
ReadFaulted(r) == r.enc.err \in Faults \/ r.btn.err \in Faults

\* Whether a pass for channel i reads the encoder, and whether, the encoder
\* read having given e, it reads the button: a read that is not made gives
\* nothing.
ReadsEncoder(i) == LoopBody(script, Frame, i, NotReadEnc, NotReadBtn).reads.enc
ReadsButton(i, e) == LoopBody(script, Frame, i, e, NotReadBtn).reads.btn

\* What the reads of a pass may give.  With nothing left of MaxEvents the
\* inputs are quiet: every read succeeds and gives what was read before.
EncInputs(i) ==
    IF ~ReadsEncoder(i) THEN {NotReadEnc}
    ELSE IF events_left = 0 THEN {e \in EncReads : e.ok /\ e.v = At(prev_raw, i)}
    ELSE EncReads

BtnInputs(i, e) ==
    IF ~ReadsButton(i, e) THEN {NotReadBtn}
    ELSE IF events_left = 0 THEN {b \in BtnReads : b.ok /\ b.v = At(last_buttons, i)}
    ELSE BtnReads

\* one pass of the body of the polling loop, for channel idx
Poll ==
    /\ pc = "loop"
    /\ script = DebugButtons => counter < MaxCounter
    /\ \E e \in EncInputs(idx) : \E b \in BtnInputs(idx, e) :
         \E g \in {LoopBody(script, Frame, idx, e, b)} :
         \E gotE \in {g.reads.enc /\ e.ok}, gotB \in {g.reads.btn /\ b.ok} :
         \E cost \in {(IF g.last_positions # last_positions \/ (gotE /\ e.v # At(prev_raw, idx))
                       THEN 1 ELSE 0)
                      + (IF g.last_buttons # last_buttons THEN 1 ELSE 0)
                      + (IF g.encoders # encoders \/ g.buttons # buttons \/ g.crashed
                         THEN 1 ELSE 0)} :
            /\ cost <= events_left
            /\ events_left' = events_left - cost
            /\ last_positions' = g.last_positions
            /\ last_buttons' = g.last_buttons
            /\ encoders' = g.encoders
            /\ buttons' = g.buttons
            /\ counter' = g.counter
            /\ out' = g.out
            /\ rd' = [ch |-> idx,
                      enc |-> IF g.reads.enc THEN e ELSE NotReadEnc,
                      btn |-> IF g.reads.btn THEN b ELSE NotReadBtn]
            /\ pc' = IF g.crashed THEN "crashed" ELSE "loop"
            /\ idx' = IF g.crashed THEN idx ELSE NextIdx(script, idx)
            /\ prev_raw' = IF gotE THEN Put(prev_raw, idx, e.v) ELSE prev_raw
            /\ first_raw' = IF idx = watch /\ gotE /\ first_raw = <<>> THEN <<e.v>> ELSE first_raw
            /\ sum_delta' = [c \in 1..NumChannels |-> sum_delta[c] + SumDeltas(g.out, c)]
            /\ scen_e' = IF idx = watch /\ gotE
                         THEN Follow(scen_e, EncoderScenario, e.v, LinesOf(g.out, "E", watch + 1))
                         ELSE scen_e
            /\ scen_b' = IF idx = watch /\ gotB
                         THEN Follow(scen_b, ButtonScenario, b.v, LinesOf(g.out, "B", watch + 1))
                         ELSE scen_b
            /\ btn_log' = IF idx = watch
                          THEN LogButton(btn_log, LinesOf(g.out, "B", watch + 1))
                          ELSE btn_log
    /\ UNCHANGED <<script, addr_idx, seesaw_board, watch, tried, pin_tries, ser>>

\* while True: time.sleep(1)
Idle ==
    /\ pc = "idle"
    /\ UNCHANGED vars

\* simple_serial_test.py: `ser = serial.Serial(device, ...)` for devices[idx];
\* a fault goes to the handler and the for loop takes the next device
SerialOpen ==
    /\ pc = "open"
    /\ \E opened \in BOOLEAN :
         IF opened
         THEN /\ ser' = [ser EXCEPT !.opened = Append(@, idx), !.elapsed = 0]
              /\ out' = <<Line("LOG", idx + 1, "Trying", 0, ""),
                          Line("LOG", idx + 1, "Successfully opened", 0, ""),
                          Line("LOG", idx + 1, "Listening for 10 seconds...", 0, "")>>
              /\ pc' = "listen"
              /\ idx' = idx
         ELSE /\ ser' = ser
              /\ out' = <<Line("LOG", idx + 1, "Trying", 0, ""),
                          Line("LOG", idx + 1, "Failed to open", 0, "")>>
              /\ pc' = AfterDevice(idx)
              /\ idx' = IF AfterDevice(idx) = "open" THEN idx + 1 ELSE idx
    /\ UNCHANGED <<script, addr_idx, seesaw_board, encoders, buttons, last_positions,
                   last_buttons, counter, rd, events_left, prev_raw, sum_delta, watch,
                   first_raw, scen_b, scen_e, tried, pin_tries, btn_log>>

\* one pass of the body of `while time.time() - start_time < 10:`.  w is what
\* ser.in_waiting gives, l what ser.readline() gives, d the whole seconds by
\* which the clock advances in the pass: readline() blocks for up to
\* SerialTimeout, time.sleep(0.1) follows, so up to SerialTimeout + 1 second
\* boundaries are crossed, one at most when readline() is not called; a
\* fault of either goes to the handler of the for body, which prints and
\* lets the for loop take the next device
SerialListen ==
    /\ pc = "listen"
    /\ ser.elapsed < ListenSeconds
    /\ \E w \in {"fault", "nothing", "waiting"}, l \in {"fault", "empty", "line"},
          d \in 0..(SerialTimeout + 1) :
         /\ w # "waiting" => (l = "empty" /\ d <= 1)
         /\ (w = "waiting" /\ l = "line") => ser.received < MaxLines
         /\ IF w = "fault" \/ (w = "waiting" /\ l = "fault")
            THEN /\ ser' = ser
                 /\ out' = <<Line("LOG", idx + 1, "Failed to open", 0, "")>>
                 /\ pc' = AfterDevice(idx)
                 /\ idx' = IF AfterDevice(idx) = "open" THEN idx + 1 ELSE idx
            ELSE /\ ser' = [ser EXCEPT !.elapsed = @ + d,
                                       !.received = IF w = "waiting" /\ l = "line"
                                                    THEN @ + 1 ELSE @]
                 /\ out' = IF w = "waiting" /\ l = "line"
                           THEN <<Line("LOG", idx + 1, "Received", 0, "")>> ELSE <<>>
                 /\ pc' = "listen"
                 /\ idx' = idx
    /\ UNCHANGED <<script, addr_idx, seesaw_board, encoders, buttons, last_positions,
                   last_buttons, counter, rd, events_left, prev_raw, sum_delta, watch,
                   first_raw, scen_b, scen_e, tried, pin_tries, btn_log>>

\* the while loop ends: ser.close(); print; break.  close() is inside the try:
\* when it raises the handler prints and the for loop takes the next device
SerialClose ==
    /\ pc = "listen"
    /\ ser.elapsed >= ListenSeconds
    /\ \E closed \in BOOLEAN :
         IF closed
         THEN /\ ser' = [ser EXCEPT !.closed = Append(@, idx)]
              /\ out' = <<Line("LOG", idx + 1, "Closed", 0, "")>>
              /\ pc' = "done"
              /\ idx' = idx
         ELSE /\ ser' = ser
              /\ out' = <<Line("LOG", idx + 1, "Failed to open", 0, "")>>
              /\ pc' = AfterDevice(idx)
              /\ idx' = IF AfterDevice(idx) = "open" THEN idx + 1 ELSE idx
    /\ UNCHANGED <<script, addr_idx, seesaw_board, encoders, buttons, last_positions,
                   last_buttons, counter, rd, events_left, prev_raw, sum_delta, watch,
                   first_raw, scen_b, scen_e, tried, pin_tries, btn_log>>

NextSerial == SerialOpen \/ SerialListen \/ SerialClose

Next == Probe \/ PinSetup \/ Poll \/ Idle

\* the scripts that have no idle loop, or cannot reach it
NextRun == Probe \/ PinSetup \/ Poll

Spec == Init /\ [][Next]_vars

\* a pass of the loop in which nothing happens: no fault, no new count or level
PollQuiet == Poll /\ UNCHANGED events_left /\ ~ReadFaulted(rd')

\* start-up followed by a quiet loop
NextStart == Probe \/ PinSetup \/ PollQuiet \/ Idle


(***************************************************************************)
(* Specifications.  Each runs the scripts a group of properties is about.  *)
(***************************************************************************)
\* the button step: the scripts that start with last_buttons all True
InitButtons == InitFor({GridSequencer, EncoderScript}, {0}, ScenStart, ScenOff,
                       MaxEvents)
SpecButtons == InitButtons /\ [][NextRun]_vars

\* the raw delta policy
InitRaw == InitFor({EncoderScript, QuadRotary, FixedPins}, {0}, ScenOff, ScenOff,
                   MaxEvents)
SpecRaw == InitRaw /\ [][NextRun]_vars

\* the divisor-scaled and the sign-normalized policy
InitSteps == InitFor({GridSequencer, NormalizedSteps}, {0}, ScenOff, ScenStart,
                     MaxEvents)
SpecSteps == InitSteps /\ [][NextRun]_vars

\* the same two scripts with no channel followed (watch = None): first_raw,
\* scen_b, scen_e and btn_log stay as they start
InitPolicies == InitFor({GridSequencer, NormalizedSteps}, {None}, ScenOff, ScenOff,
                        MaxEvents)
SpecPolicies == InitPolicies /\ [][NextRun]_vars

\* the scripts that handle read faults by disabling handles
InitFaults == InitFor({FixedPins, Working, Simple, Pullups, DebugButtons}, {0},
                      ScenOff, ScenOff, MaxEvents)
SpecFaults == InitFaults /\ [][Next]_vars


\* passes that change nothing: a raw-policy and a divisor-policy script
InitQuiet == InitFor({Simple, GridSequencer}, {0}, ScenOff, ScenOff, MaxEvents)
SpecQuiet == InitQuiet /\ [][Next]_vars

\* the order of the lines of a cycle: unguarded, one try, guarded halves
InitOrder == InitFor({EncoderScript, GridSequencer, Simple}, {0}, ScenOff, ScenOff, MaxEvents)
SpecOrder == InitOrder /\ [][Next]_vars

\* the serial sniffer
InitSerial == InitFor({SerialTest}, {0}, ScenOff, ScenOff, 0)
SpecSerial == InitSerial /\ [][NextSerial]_vars

\* start-up: the scripts that probe addresses or set pins up inside a try
InitStart == InitFor({FixedPins, Pullups, Simple, SimpleRotary, Working}, {0},
                     ScenOff, ScenOff, MaxStartFaults)
SpecStart == InitStart /\ [][NextStart]_vars


(***************************************************************************)
(* Properties.  A step taken in a state with pc = "loop" is one pass of    *)
(* the loop body for channel idx; the primed rd and out are what that pass *)
(* read and printed.                                                       *)
(***************************************************************************)
PlainLines(ev) == [k \in 1..Len(ev) |-> ev[k].line]

UnitLine(i, up) == Line("E", i + 1, IF up THEN "+" ELSE "-", 1, "")

(* C1: button step.  A pass that reads level False while last_buttons[i]   *)
(* is True prints exactly one B<i>:PRESS line; one that reads True while   *)
(* it is False prints exactly one B<i>:RELEASE line; one that reads the    *)
(* level it holds prints no B line; last_buttons[i] is then the level      *)
(* read.  The levels True, True, False, False, True read on channel 1      *)
(* from the start of the loop print B1:PRESS then B1:RELEASE and no other  *)
(* button line.                                                            *)
C1_ButtonStep ==
    [][(pc = "loop" /\ rd'.btn.ok) =>
          LET i == idx
              lvl == rd'.btn.v
              was == At(last_buttons, i)
              bl == LinesOf(out', "B", i + 1)
          IN /\ (was /\ ~lvl) => bl = <<BLine(i, "PRESS")>>
             /\ (~was /\ lvl) => bl = <<BLine(i, "RELEASE")>>
             /\ (was = lvl) => bl = <<>>
             /\ At(last_buttons', i) = lvl
             /\ scen_b'.n = Len(ButtonScenario) =>
                   PlainLines(scen_b'.ev) = <<BLine(watch, "PRESS"), BLine(watch, "RELEASE")>>
      ]_vars

C1_Witness ==
    /\ watch = 0
    /\ scen_b.n = Len(ButtonScenario)
    /\ Len(scen_b.ev) = 2
    /\ rd.ch = 0 /\ rd.btn.ok /\ rd.btn.v
    /\ LinesOf(out, "B", 1) = <<BLine(0, "RELEASE")>>

(* C2: the deltas printed for a channel sum to the last raw     *)
(* count read minus the first raw count read.                              *)
C2_SumIsLastMinusFirst ==
    first_raw # <<>> => sum_delta[watch + 1] = At(prev_raw, watch) - first_raw[1]

(* C3: sign-normalized policy.  A pass that reads a raw count different    *)
(* from last_positions[i] prints exactly one E line for the channel, +1    *)
(* when the count went up and -1 when it went down; no E line with any     *)
(* other delta is printed.                                                 *)
C3_SignNormalized ==
    [][(pc = "loop" /\ script = NormalizedSteps) =>
          LET i == idx
              was == At(last_positions, i)
              el == LinesOf(out', "E", i + 1)
          IN /\ \A k \in 1..Len(out') :
                   out'[k].k = "E" => out'[k] \in {UnitLine(i, TRUE), UnitLine(i, FALSE)}
             /\ (rd'.enc.ok /\ rd'.enc.v > was) => el = <<UnitLine(i, TRUE)>>
             /\ (rd'.enc.ok /\ rd'.enc.v < was) => el = <<UnitLine(i, FALSE)>>
      ]_vars

C3_Witness ==
    /\ script = NormalizedSteps
    /\ rd.enc.ok /\ rd.enc.v = -2 * ENCODER_DIVISOR
    /\ LinesOf(out, "E", rd.ch + 1) = <<UnitLine(rd.ch, FALSE)>>
    /\ At(last_positions, rd.ch) = rd.enc.v

(* C4: divisor-scaled policy.  Every E line printed carries +1 or -1,      *)
(* never 0 or a larger magnitude, and a pass whose divided position equals *)
(* last_positions[i] prints no E line.                                     *)
C4_DivisorUnitDeltas ==
    [][(pc = "loop" /\ script = GridSequencer) =>
          /\ \A k \in 1..Len(out') :
                out'[k].k = "E" => out'[k] \in {UnitLine(idx, TRUE), UnitLine(idx, FALSE)}
          /\ (rd'.enc.ok /\ (rd'.enc.v \div ENCODER_DIVISOR) = At(last_positions, idx))
                => LinesOf(out', "E", idx + 1) = <<>>
      ]_vars

C4_Witness ==
    /\ script = GridSequencer
    /\ rd.enc.ok /\ rd.enc.v = 1
    /\ At(last_positions, rd.ch) = 0
    /\ events_left < MaxEvents
    /\ LinesOf(out, "E", rd.ch + 1) = <<>>

(* C5: divisor-scaled policy.  When the raw count read differs from the    *)
(* one read before by a non-zero multiple of the divisor, the pass prints  *)
(* exactly one E line, +1 or -1 in the direction of the jump; a pass that  *)
(* reads the same raw count as before prints no E line.                    *)
C5_DivisorJump ==
    [][(pc = "loop" /\ script = GridSequencer /\ rd'.enc.ok) =>
          LET i == idx
              r0 == At(prev_raw, i)
              r1 == rd'.enc.v
              el == LinesOf(out', "E", i + 1)
          IN /\ (r1 # r0 /\ (r1 - r0) % ENCODER_DIVISOR = 0) => el = <<UnitLine(i, r1 > r0)>>
             /\ (r1 = r0) => el = <<>>
      ]_vars

C5_Witness ==
    /\ script = GridSequencer
    /\ rd.enc.ok /\ rd.enc.v = 2 * ENCODER_DIVISOR
    /\ At(last_positions, rd.ch) = 2
    /\ sum_delta[rd.ch + 1] = 1
    /\ LinesOf(out, "E", rd.ch + 1) = <<>>

(* C6: after a pass that prints an E line, last_positions[i] is the        *)
(* position just read (the raw count divided by the divisor in             *)
(* qtpy_grid_sequencer.py, the raw count in qtpy_normalized_steps.py),     *)
(* also when the delta was clamped.  With divisor 4 the raw counts 0, 0,   *)
(* 4, 4, 8 read on channel 1 from the start of the loop print E1:+1 at     *)
(* the third and at the fifth read only and leave last_positions[0] = 2.   *)
C6_BaselineIsPositionRead ==
    [][(pc = "loop") =>
          /\ LinesOf(out', "E", idx + 1) # <<>> =>
                /\ rd'.enc.ok
                /\ At(last_positions', idx) =
                      IF script = GridSequencer THEN rd'.enc.v \div ENCODER_DIVISOR
                      ELSE rd'.enc.v
          /\ (script = GridSequencer /\ scen_e'.n = Len(EncoderScenario)) =>
                /\ scen_e'.ev = <<[at |-> 3, line |-> UnitLine(watch, TRUE)],
                                  [at |-> 5, line |-> UnitLine(watch, TRUE)]>>
                /\ At(last_positions', watch) = 2
      ]_vars

C6_Witness ==
    /\ script = GridSequencer
    /\ watch = 0
    /\ scen_e.n = Len(EncoderScenario)
    /\ At(last_positions, 0) = 2
    /\ Len(scen_e.ev) = 2

(* C7: cross-channel fault isolation.  A pass for channel i, whatever its  *)
(* reads give (a count, a level, a device-absent fault or a transient      *)
(* fault), leaves the handles, last_positions and last_buttons of every    *)
(* other channel as they were and prints lines of channel i only; after a  *)
(* faulted read in qtpy_fixed_pins.py, qtpy_working.py, qtpy_simple.py and *)
(* qtpy_pullups.py the loop goes on with the next channel.                 *)
C7_CrossChannelIsolation ==
    [][(pc = "loop") =>
          /\ \A j \in Chans \ {idx} :
                /\ At(encoders', j) = At(encoders, j)
                /\ At(buttons', j) = At(buttons, j)
                /\ At(last_positions', j) = At(last_positions, j)
                /\ At(last_buttons', j) = At(last_buttons, j)
          /\ \A k \in 1..Len(out') : out'[k].ch = idx + 1
          /\ (ReadFaulted(rd') /\ script \in {FixedPins, Working, Simple, Pullups}) =>
                /\ pc' = "loop"
                /\ idx' = (idx + 1) % NumChannels
      ]_vars

C7_Witness ==
    /\ script = FixedPins
    /\ pc = "loop"
    /\ rd.enc.err = NoSuchDevice
    /\ At(encoders, rd.ch) = None
    /\ idx = (rd.ch + 1) % NumChannels
    /\ \E j \in Chans \ {rd.ch} :
          /\ At(encoders, j) # None
          /\ At(buttons, j) # None
          /\ At(last_positions, j) # 0

(* C8, as stated: a device-absent fault of channel i's encoder read        *)
(* disables the encoder handle only and leaves the channel's button handle *)
(* as it was; a device-absent fault of its button read disables the button *)
(* handle only and leaves the encoder handle as it was.                    *)
C8_OnlyFaultedHalfDisabled ==
    [][(pc = "loop" /\ script \in {FixedPins, Simple}) =>
          /\ rd'.enc.err = NoSuchDevice =>
                /\ At(encoders', idx) = None
                /\ At(buttons', idx) = At(buttons, idx)
          /\ rd'.btn.err = NoSuchDevice =>
                /\ At(buttons', idx) = None
                /\ At(encoders', idx) = At(encoders, idx)
      ]_vars

(* C9: disabling is one-way and idempotent.  A handle that is absent stays *)
(* absent through every pass, no read is attempted on it and no line is    *)
(* printed for its half of the channel; disabling a channel whose handle   *)
(* is absent already leaves that handle absent.                            *)
C9_DisableOneWay ==
    [][(pc = "loop") =>
          /\ \A j \in Chans :
                /\ At(encoders, j) = None => At(encoders', j) = None
                /\ At(buttons, j) = None => At(buttons', j) = None
          /\ At(encoders, idx) = None =>
                /\ rd'.enc = NotReadEnc
                /\ LinesOf(out', "E", idx + 1) = <<>>
          /\ At(buttons, idx) = None =>
                /\ rd'.btn = NotReadBtn
                /\ LinesOf(out', "B", idx + 1) = <<>>
      ]_vars

C9_Witness ==
    /\ script = Working
    /\ pc = "loop"
    /\ rd.ch \in Chans
    /\ At(encoders, rd.ch) = None /\ At(buttons, rd.ch) = None
    /\ At(last_positions, rd.ch) # 0
    /\ rd.enc = NotReadEnc /\ rd.btn = NotReadBtn
    /\ out = <<>>

(* C10, as stated: a read fault of channel i that is not a device-absent   *)
(* fault disables no handle of the channel, prints a diagnostic line,      *)
(* leaves last_positions[i] (encoder read faulted) or last_buttons[i]      *)
(* (button read faulted) as it was, and the loop goes on, so that the      *)
(* channel is read again in the next cycle.                                *)
C10_TransientFaultKeepsChannel ==
    [][(pc = "loop" /\ script \in {Working, FixedPins, Pullups}
          /\ (rd'.enc.err = OtherError \/ rd'.btn.err = OtherError)) =>
          /\ At(encoders', idx) = At(encoders, idx)
          /\ At(buttons', idx) = At(buttons, idx)
          /\ \E k \in 1..Len(out') : out'[k].k = "LOG"
          /\ rd'.enc.err = OtherError => At(last_positions', idx) = At(last_positions, idx)
          /\ rd'.btn.err = OtherError => At(last_buttons', idx) = At(last_buttons, idx)
          /\ pc' = "loop"
      ]_vars

(* C11: fault containment.  A pass in which an encoder or a button read    *)
(* faults is caught inside the loop: it ends with a handle of the channel  *)
(* disabled or with a log line printed, and the loop goes on with the next *)
(* channel.                                                                *)
C11_FaultsContained ==
    [][(pc = "loop" /\ script \in {QuadRotary, DebugButtons, Pullups} /\ ReadFaulted(rd')) =>
          /\ pc' = "loop"
          /\ idx' = NextIdx(script, idx)
          /\ \/ At(encoders', idx) # At(encoders, idx)
             \/ At(buttons', idx) # At(buttons, idx)
             \/ \E k \in 1..Len(out') : out'[k].k = "LOG"
      ]_vars

(* C12: clean event grammar.  Every line a pass of the loop prints is      *)
(* E<i>:<integer>, B<i>:PRESS or B<i>:RELEASE with i in 1..4 and nothing   *)
(* after it; no diagnostic line is printed once the loop has started.      *)
C12_CleanGrammar ==
    [][(pc = "loop" /\ script \in {FixedFromSample, DebugButtons}) =>
          \A k \in 1..Len(out') :
             /\ out'[k].k \in {"E", "B"}
             /\ out'[k].ch \in 1..NumChannels
             /\ out'[k].tail = ""
             /\ out'[k].k = "B" => out'[k].txt \in {"PRESS", "RELEASE"}
      ]_vars

(* C13: address resolution order.  Every attempt to open the seesaw is     *)
(* made with the next address of the list, a fault of an attempt that is   *)
(* not the last leads to the next attempt, the first address that opens is *)
(* the one selected, and nothing is attempted after it.  With addresses    *)
(* [A, B, C, ...] where A and B fault and C opens, the attempts are        *)
(* exactly A, B, C and C is selected.                                      *)
C13_AddressOrder ==
    [][/\ (pc = "probe" /\ script \in {FixedPins, Pullups, SimpleRotary}) =>
             LET k == Len(tried) + 1
                 n == Len(Addresses(script))
             IN /\ k <= n
                /\ seesaw_board = None
                /\ tried' = Append(tried, Addresses(script)[k])
                /\ seesaw_board' # None => (seesaw_board' = Addresses(script)[k] /\ pc' = "pins")
                /\ seesaw_board' = None => pc' = (IF k < n THEN "probe" ELSE "idle")
       /\ pc # "probe" => (tried' = tried /\ seesaw_board' = seesaw_board)
       /\ (Len(tried') = 3 /\ seesaw_board' # None) =>
             /\ tried' = SubSeq(Addresses(script), 1, 3)
             /\ seesaw_board' = Addresses(script)[3]
      ]_vars

C13_Witness ==
    /\ script = FixedPins
    /\ tried = <<54, 73, 58>>
    /\ seesaw_board = 58
    /\ pc = "loop"
    /\ rd.ch # None

(* C14: no address responds.  When the last address of the list faults     *)
(* too, the script goes to its idle loop and stays there: the pins are     *)
(* never set up, no channel is ever read and no E or B line is printed.    *)
C14_NoAddressIdle ==
    [][/\ (pc = "probe" /\ script \in {FixedPins, Pullups, Simple}
             /\ Len(tried') = Len(Addresses(script)) /\ seesaw_board' = None) => pc' = "idle"
       /\ (pc' = "idle" /\ seesaw_board' = None) =>
             /\ Len(tried') = Len(Addresses(script))
             /\ encoders' = <<>> /\ buttons' = <<>> /\ pin_tries' = <<>>
             /\ rd' = NoRd
             /\ \A k \in 1..Len(out') : out'[k].k = "LOG"
             /\ \A c \in 1..NumChannels : sum_delta'[c] = 0
       /\ pc = "idle" => pc' = "idle"
      ]_vars

C14_Witness ==
    /\ script = Pullups
    /\ pc = "idle"
    /\ seesaw_board = None
    /\ tried = Addresses(Pullups)
    /\ encoders = <<>>

(* C15: zero working channels.  The polling loop is entered only with at   *)
(* least one encoder handle; a set-up that leaves no encoder handle ends   *)
(* in the idle loop.                                                       *)
C15_LoopNeedsAChannel ==
    (script \in {FixedPins, Working, Pullups} /\ pc = "loop") => WorkingCount(encoders) > 0

(* C16: per-channel pin fallback in qtpy_fixed_pins.py.  The set-up of     *)
(* channel i tries the main pair first and then the alternative pairs in   *)
(* list order; every pair but the last one tried has faulted; when the     *)
(* last one tried did not fault its pins are the handles of the channel,   *)
(* and when it faulted every pair has been tried.  The step appends one    *)
(* slot to each list, leaves the earlier slots as they were and goes on to *)
(* the next channel, whatever happened to this one; the loop starts with   *)
(* four slots.                                                             *)
Candidates(i) ==
    <<<<At(encoder_pins(FixedPins), i), At(button_pins(FixedPins), i)>>>>
    \o [a \in 1..Len(alt_encoder_pins) |->
           <<At(alt_encoder_pins[a], i), At(alt_button_pins[a], i)>>]

C16_PinFallback ==
    [][(pc = "pins" /\ script = FixedPins) =>
          LET i == idx
              n == Len(pin_tries')
              faulted == events_left - events_left'
          IN /\ n \in 1..Len(Candidates(i))
             /\ pin_tries' = SubSeq(Candidates(i), 1, n)
             /\ faulted \in {n - 1, n}
             /\ faulted = n - 1 =>
                   <<At(encoders', i), At(buttons', i)>> = Candidates(i)[n]
             /\ faulted = n => n = Len(Candidates(i))
             /\ Len(encoders') = i + 1 /\ Len(buttons') = i + 1
             /\ SubSeq(encoders', 1, i) = encoders /\ SubSeq(buttons', 1, i) = buttons
             /\ i < NumChannels - 1 => (pc' = "pins" /\ idx' = i + 1)
             /\ i = NumChannels - 1 => pc' \in {"loop", "idle"}
      ]_vars

C16_Witness ==
    /\ script = FixedPins
    /\ pc = "loop"
    /\ Len(encoders) = NumChannels /\ Len(buttons) = NumChannels
    /\ At(encoders, 0) = None /\ At(buttons, 0) = None
    /\ <<At(encoders, 1), At(buttons, 1)>> = Candidates(1)[2]
    /\ <<At(encoders, 2), At(buttons, 2)>> = Candidates(2)[1]

(***************************************************************************)
(* The scripts whose loop body reads the encoder and the button in one try *)
(* block, run with a watched channel whose encoder read raises in every    *)
(* pass and whose button is held down (every read of it gives False).  The *)
(* loop never blocks, so the passes are taken for ever.                    *)
(***************************************************************************)
PollHalf ==
    /\ Poll
    /\ events_left' > 0
    /\ idx = watch =>
          /\ rd'.enc.err \in Faults
          /\ rd'.btn # NotReadBtn => (rd'.btn.ok /\ ~rd'.btn.v)

NextHalf == Probe \/ PinSetup \/ PollHalf

InitHalf == InitFor({GridSequencer, NormalizedSteps, FixedFromSample}, {0}, ScenOff, ScenOff, MaxEvents)

SpecHalf == InitHalf /\ [][NextHalf]_vars /\ WF_vars(NextHalf)

(* C17: a channel keeps operating on its working half.  With the encoder   *)
(* read of the watched channel raising in every pass and its button held   *)
(* down from the start (the stored level is True), a B<i>:PRESS line is    *)
(* eventually printed for the channel.                                     *)
C17_WorkingHalfOperates ==
    (pc = "loop") ~> (btn_log.last_line = "PRESS")

\* the value a script compares with last_positions[i] when it has read raw
Compared(s, raw) ==
    IF s \in {GridSequencer} THEN raw \div ENCODER_DIVISOR ELSE raw

\* the reads of the pass just taken that succeeded gave what is stored
SameAsStored(r, i) ==
    /\ r.enc.ok => Compared(script, r.enc.v) = At(last_positions, i)
    /\ r.btn.ok => r.btn.v = At(last_buttons, i)

Stateless ==
    /\ out' = <<>>
    /\ last_positions' = last_positions
    /\ last_buttons' = last_buttons
    /\ encoders' = encoders
    /\ buttons' = buttons

(* C18 as stated: a pass in which every read that succeeded gave the       *)
(* stored value (position after division where the script divides, button  *)
(* level) prints no line and leaves last_positions, last_buttons and all   *)
(* handles as they were.                                                   *)
C18_NoChangeSilent ==
    [][(pc = "loop" /\ script \in {Simple, GridSequencer} /\ SameAsStored(rd', idx))
          => Stateless]_vars

(* C18, amended: a pass in which no read raises and every read made gives  *)
(* the stored value prints no line and leaves last_positions, last_buttons *)
(* and all handles of all channels as they were.                           *)
C18_NoChangeNoFaultSilent ==
    [][(pc = "loop" /\ script \in {Simple, GridSequencer} /\ ~ReadFaulted(rd')
          /\ SameAsStored(rd', idx)) => Stateless]_vars

C18_Witness ==
    /\ script = GridSequencer
    /\ pc = "loop"
    /\ rd.ch = 0 /\ rd.enc.ok /\ rd.btn.ok
    /\ rd.enc.v = -1 /\ At(last_positions, 0) = -1
    /\ ~rd.btn.v /\ ~At(last_buttons, 0)
    /\ out = <<>>

(* C19: no spurious start-up event.  The first pass of the loop, when it   *)
(* reads the level True (button not pressed) on its channel, prints no     *)
(* B<i>:PRESS and no B<i>:RELEASE line for that channel.                   *)
C19_NoStartupEvent ==
    [][(pc = "loop" /\ script \in {Working, QuadRotary, GridSequencer}
          /\ rd = NoRd /\ rd'.btn.ok /\ rd'.btn.v)
          => LinesOf(out', "B", idx + 1) = <<>>]_vars

(* C20: button events alternate.  A pass on the watched channel prints at  *)
(* most one B line for it, the word of that line differs from the word of  *)
(* the B line printed before it for the channel, and after the pass        *)
(* last_buttons[i] is False exactly when the last B line printed for the   *)
(* channel is PRESS.                                                       *)
C20_ButtonLinesAlternate ==
    [][(pc = "loop" /\ script \in {FixedPins, EncoderScript, Working} /\ idx = watch) =>
          LET ls == LinesOf(out', "B", watch + 1)
          IN /\ Len(ls) <= 1
             /\ ls # <<>> => ls[1].txt # btn_log.last_line
             /\ ~At(last_buttons', watch) <=> btn_log'.last_line = "PRESS"
      ]_vars

(* C21: no button-only channel.  After the pin set-up of a channel and     *)
(* during polling, a channel with a button handle has an encoder handle;   *)
(* a pass on a channel without encoder handle prints no B line for it.     *)
C21_NoButtonOnlyChannel ==
    [][(script \in {FixedPins, Simple}) =>
          /\ \A c \in 1..Len(buttons') : buttons'[c] # None => encoders'[c] # None
          /\ Len(encoders') = Len(buttons')
          /\ (pc = "loop" /\ At(encoders, idx) = None) => LinesOf(out', "B", idx + 1) = <<>>
      ]_vars

C21_Witness ==
    /\ script = Simple
    /\ pc = "loop"
    /\ At(encoders, 0) # None /\ At(buttons, 0) = None
    /\ rd.ch = 1 /\ rd.enc.err = NoSuchDevice
    /\ At(encoders, 1) = None /\ At(buttons, 1) = None

(* C22: resolved handles come from one candidate.  In qtpy_fixed_pins.py a *)
(* channel slot that holds a handle holds the encoder pin and the button   *)
(* pin of one candidate pair (the main pair or one alternative), and that  *)
(* pair is the last one tried, which did not fault: no handle of a pair    *)
(* that faulted part-way is kept.                                          *)
C22_HandlesFromOneCandidate ==
    [][(pc = "pins" /\ script = FixedPins) =>
          LET i == idx
              n == Len(pin_tries')
              faulted == events_left - events_left'
              kept == <<At(encoders', i), At(buttons', i)>>
          IN /\ (kept[1] # None /\ kept[2] # None) =>
                   \E a \in 1..Len(Candidates(i)) : kept = Candidates(i)[a]
             /\ faulted = n => kept = <<None, None>>
      ]_vars

\* the E lines with the opposite sign
Negated(lines) ==
    [k \in 1..Len(lines) |-> [lines[k] EXCEPT !.txt = IF @ = "-" THEN "+" ELSE "-"]]

(* C23: the divisor-scaled policy is symmetric in direction.  From the     *)
(* baseline 0 the E lines a pass prints for the raw position v are the     *)
(* negation of the E lines the step prints for -v; a raw position v with   *)
(* 0 < |v| < ENCODER_DIVISOR prints no E line.                             *)
C23_DirectionSymmetric ==
    [][(pc = "loop" /\ script = GridSequencer /\ rd'.enc.ok /\ At(last_positions, idx) = 0) =>
          LET v == rd'.enc.v
              mirrored == DivisorEncoderStep(Frame, idx, -v)
          IN /\ LinesOf(mirrored.out, "E", idx + 1) = Negated(LinesOf(out', "E", idx + 1))
             /\ Abs(v) < ENCODER_DIVISOR => LinesOf(out', "E", idx + 1) = <<>>
      ]_vars

(* C24: the two normalisation strategies agree.  For the position pos a    *)
(* pass compares with last_positions[i] (the raw count, or the count       *)
(* divided where the script divides), with pos different from the stored   *)
(* one, the clamped difference is the sign of the difference; the clamp    *)
(* step and the sign step, given pos in the same state, print the same     *)
(* lines and store the same last_positions, and these are the E lines and  *)
(* the last_positions of the pass.                                         *)
C24_ClampIsSign ==
    [][(pc = "loop" /\ script \in {GridSequencer, NormalizedSteps} /\ rd'.enc.ok) =>
          \E i \in {idx} : \E pos \in {Compared(script, rd'.enc.v)} :
          \E delta \in {pos - At(last_positions, i)} :
          \E clamped \in {DivisorEncoderStep(Frame, i, pos * ENCODER_DIVISOR)} :
          \E signed \in {SignEncoderStep(Frame, i, pos)} :
             /\ delta # 0 => Clamp(delta) = (IF delta > 0 THEN 1 ELSE -1)
             /\ clamped.out = signed.out
             /\ clamped.last_positions = signed.last_positions
             /\ LinesOf(out', "E", i + 1) = clamped.out
             /\ last_positions' = clamped.last_positions
      ]_vars

C24_Witness ==
    /\ script = GridSequencer
    /\ pc = "loop"
    /\ rd.enc.ok /\ rd.enc.v = -2 * ENCODER_DIVISOR
    /\ At(last_positions, rd.ch) = -2
    /\ At(prev_raw, rd.ch) = -2 * ENCODER_DIVISOR
    /\ LinesOf(out, "E", rd.ch + 1) = <<UnitLine(rd.ch, FALSE)>>
    /\ sum_delta[rd.ch + 1] = -1

(* C25: emission order within a cycle.  The loop starts with channel 1 and *)
(* a pass on channel i is followed by the pass on channel i + 1, the pass  *)
(* on channel 4 by the pass on channel 1 of the next cycle; the E and B    *)
(* lines a pass prints are lines of its channel, at most one E line and at *)
(* most one B line, the E line before the B line.                          *)
C25_EmissionOrder ==
    [][(script \in {EncoderScript, GridSequencer, Simple}) =>
          /\ (pc # "loop" /\ pc' = "loop") => idx' = 0
          /\ pc = "loop" =>
                LET el == LinesOf(out', "E", idx + 1)
                    bl == LinesOf(out', "B", idx + 1)
                    ev == SelectSeq(out', LAMBDA l : l.k \in {"E", "B"})
                IN /\ Len(el) <= 1 /\ Len(bl) <= 1
                   /\ ev = el \o bl
                   /\ pc' = "loop" => idx' = (idx + 1) % NumChannels
                   /\ rd'.ch = idx
      ]_vars

C25_Witness ==
    /\ script = Simple
    /\ pc = "loop"
    /\ rd.ch = NumChannels - 1 /\ idx = 0
    /\ Len(out) = 2
    /\ out[1].k = "E" /\ out[1].ch = NumChannels
    /\ out[2].k = "B" /\ out[2].ch = NumChannels

(* C26: the serial sniffer listens on at most one device.  Once a device   *)
(* has been opened no later device is opened, and when the script has      *)
(* ended every port it opened has been closed.                             *)
C26_OnePortAndClosed ==
    script = SerialTest =>
       /\ Len(ser.opened) <= 1
       /\ pc = "done" => ser.closed = ser.opened

====
